---- MODULE Spec2Model ----
(***************************************************************************)
(* Model of the University of Haifa RAG chatbot: the language filter       *)
(* (chatbot/language_filter.py), the hybrid retriever                      *)
(* (chatbot/hybrid_retriever.py), the context packer and the CLI loop      *)
(* (chatbot/test.py), the web answer path (webapp/rag_engine.py) and the   *)
(* chunker of the ingestion (chunking.py).                                 *)
(*                                                                         *)
(* A text is a sequence of Unicode code points (naturals).                 *)
(***************************************************************************)
EXTENDS Integers, Sequences, FiniteSets, TLC

VARIABLES
    lf_pc,      \* language filter: "input" or the function that was applied
    lf_text,    \* language filter: the input text
    lf_found,   \* contains_unwanted_languages: the set of categories found
    lf_valid,   \* validate_response_language: is_valid
    lf_reason,  \* validate_response_language: kind of error message
    lf_clean,   \* clean_response: the output text
    metas,      \* HybridRetriever.metas: the chunk records of the index
    alpha,      \* HybridRetriever.alpha, in units of 1/AlphaDen
    ret_pc,     \* retriever: "built", "returned" or "raised"
    topk,       \* retrieve: argument topk
    max_per_url,\* retrieve: argument max_per_url
    dense_scores, \* retrieve: E @ q_emb, one score per chunk
    bm25_scores,  \* retrieve: bm25.get_scores, one score per chunk
    picked,     \* retrieve: the returned list of (score, chunk) pairs
    fit_pc,     \* context packer: "input", "returned" or "raised"
    fit_picked, \* fit_sources_to_context: argument picked, (score, meta) pairs
    max_tokens, \* fit_sources_to_context: argument max_tokens
    fitted,     \* fit_sources_to_context: the returned list
    total_chars,\* fit_sources_to_context: total_chars at the end of the loop
    cli_pc,     \* main loop: "prompt" (at input()), "call1" / "call2" (inside
                \* the first / second ollama_chat), "exited", "crashed"
    history,    \* main: history, a list of {role, content}
    user_q,     \* main: user_q of the current iteration
    main_picked,\* main: picked after fit_sources_to_context and cleaning
    sources,    \* main: the source block of the prompt, one entry per source
    want_he,    \* main: want_he
    ans,        \* main: ans
    is_valid,   \* main: is_valid of the last validation
    calls,      \* ollama_chat calls made in the current iteration
    retrievals, \* retriever.retrieve calls made in the current iteration
    out,        \* what the current iteration has printed, in order
    web_pc,     \* webapp: "off", "idle", "call1", "call2"
    web_text,   \* api_send_async: text of the request being served
    web_ans,    \* RagEngine.answer: ans
    web_calls,  \* RagEngine.ollama_chat calls made for the current request
    web_msgs,   \* the Message rows of the chat, in order of their ids
    web_resp,   \* the last HTTP response: [status, answer]
    ck_pc,      \* chunk_paragraphs: "off", "loop" (at the for statement),
                \* "split" (at the while statement), "advance" (before the
                \* assignment of start), "done"
    paras,      \* chunk_paragraphs: argument paras
    ck_max_chars, \* chunk_paragraphs: argument max_chars
    overlap_chars,\* chunk_paragraphs: argument overlap_chars
    chunks,     \* chunk_paragraphs: chunks (its first MaxOut entries)
    cur,        \* chunk_paragraphs: cur
    cur_len,    \* chunk_paragraphs: cur_len
    ck_i,       \* chunk_paragraphs: position of the for loop in paras
    start,      \* chunk_paragraphs: start
    end         \* chunk_paragraphs: end
\* user_q, picked, main_picked, sources, want_he, ans and is_valid are locals of one
\* iteration of the loop: an iteration starts with those it has not yet
\* assigned cleared
lf_vars == <<lf_pc, lf_text, lf_found, lf_valid, lf_reason, lf_clean>>

ret_vars == <<metas, alpha, ret_pc, topk, max_per_url, dense_scores,
              bm25_scores, picked>>

fit_vars == <<fit_pc, fit_picked, max_tokens, fitted, total_chars>>

cli_vars == <<cli_pc, history, user_q, main_picked, sources, want_he, ans, is_valid,
              calls, retrievals, out>>

web_vars == <<web_pc, web_text, web_ans, web_calls, web_msgs, web_resp>>

ck_vars == <<ck_pc, paras, ck_max_chars, overlap_chars, chunks, cur, cur_len,
             ck_i, start, end>>

vars == <<lf_vars, ret_vars, fit_vars, cli_vars, web_vars, ck_vars>>

----------------------------------------------------------------------------
(* Bounds of the model *)

\* longest arbitrary part of an enumerated text
MaxSuffix == 2
\* longest run of ASCII letters put in front of the arbitrary part
MaxPad == 20
\* largest number of chunks of an enumerated index
MaxChunks == 5
\* largest number of (user, assistant) pairs the history grows to
MaxPairs == 2
\* longest source list handed to the context packer
MaxSources == 2
\* largest topk and max_per_url passed to retrieve
MaxTopK == 2
MaxPerUrl == 2
\* most Hebrew letters and most Latin letters of a query given to is_hebrew
MaxHebrew == 4
MaxLatin == 18
\* longest paragraph list and longest paragraph given to chunk_paragraphs
MaxParas == 2
MaxParaLen == 4
\* number of chunks of a run that the model keeps
MaxOut == 12

----------------------------------------------------------------------------
(* Characters: Python's str predicates on the code points the model uses *)

\* str.isascii for one character
IsAscii(c) == c <= 127

\* str.isalpha for one character (the letter blocks the model draws from)
IsAlpha(c) ==
    \/ c \in 65..90 \/ c \in 97..122
    \/ c \in 192..214 \/ c \in 216..246 \/ c \in 248..255
    \/ c \in 1040..1103
    \/ c \in 1488..1514
    \/ c \in 1568..1610
    \/ c \in 12353..12438
    \/ c \in 12449..12538
    \/ c \in 19968..40959
    \/ c \in 44032..55203

\* str.isdigit for one character: ASCII, Arabic-Indic and Extended
\* Arabic-Indic digits
IsDigit(c) == c \in 48..57 \/ c \in 1632..1641 \/ c \in 1776..1785

\* str.isspace for one character
IsSpace(c) == c \in 9..13 \/ c \in 28..32 \/ c = 133 \/ c = 160

\* the punctuation string of clean_response: .,!?;:()'"[]{}+-=/*@#$%&<>
CleanPunct ==
    {46, 44, 33, 63, 59, 58, 40, 41, 39, 34, 91, 93, 123, 125, 43, 45, 61,
     47, 42, 64, 35, 36, 37, 38, 60, 62}

\* the Hebrew block U+0590..U+05FF
IsHebrew(c) == c \in 1424..1535

----------------------------------------------------------------------------
(* chatbot/language_filter.py *)

\* unwanted_ranges: category |-> (start, end)
unwanted_ranges ==
    [Arabic   |-> <<1536, 1791>>,
     Cyrillic |-> <<1024, 1279>>,
     Chinese  |-> <<19968, 40959>>,
     Hangul   |-> <<44032, 55215>>,
     Hiragana |-> <<12352, 12447>>,
     Katakana |-> <<12448, 12543>>]

Categories == DOMAIN unwanted_ranges

\* start <= code <= end, with the lower bound made strict
InCategoryStrictStart(c, lang) ==
    unwanted_ranges[lang][1] < c /\ c <= unwanted_ranges[lang][2]

\* start <= code <= end
InCategory(c, lang) ==
    unwanted_ranges[lang][1] <= c /\ c <= unwanted_ranges[lang][2]

\* found_languages of contains_unwanted_languages; has_unwanted is
\* found_languages # {}
contains_unwanted_languages(text) ==
    {lang \in Categories : \E i \in 1..Len(text) : InCategory(text[i], lang)}

has_unwanted(text) == contains_unwanted_languages(text) # {}

\* the elif chain of clean_response for one character
CleanKeeps(c) ==
    \/ IsHebrew(c)
    \/ (IsAlpha(c) /\ IsAscii(c))
    \/ IsDigit(c)
    \/ IsSpace(c)
    \/ c \in CleanPunct

\* clean_response leaving its loop after the first character it skips
clean_response_first(text) ==
    IF \A i \in 1..Len(text) : CleanKeeps(text[i])
        THEN text
        ELSE LET i == CHOOSE k \in 1..Len(text) :
                        ~CleanKeeps(text[k]) /\ \A j \in 1..(k - 1) : CleanKeeps(text[j])
             IN  SubSeq(text, 1, i - 1) \o SubSeq(text, i + 1, Len(text))

\* clean_response: the kept characters, in their order
clean_response(text) == SelectSeq(text, CleanKeeps)

StatHebrew(c)  == IsAlpha(c) /\ IsHebrew(c)
StatEnglish(c) == IsAlpha(c) /\ ~IsHebrew(c) /\ IsAscii(c)
StatArabic(c)  == IsAlpha(c) /\ ~IsHebrew(c) /\ ~IsAscii(c) /\ c \in 1536..1791
StatRussian(c) == IsAlpha(c) /\ ~IsHebrew(c) /\ ~IsAscii(c)
                  /\ ~(c \in 1536..1791) /\ c \in 1024..1279
StatOther(c)   == IsAlpha(c) /\ ~IsHebrew(c) /\ ~IsAscii(c)
                  /\ ~(c \in 1536..1791) /\ ~(c \in 1024..1279)

get_language_stats(text) ==
    [hebrew      |-> Len(SelectSeq(text, StatHebrew)),
     english     |-> Len(SelectSeq(text, StatEnglish)),
     arabic      |-> Len(SelectSeq(text, StatArabic)),
     russian     |-> Len(SelectSeq(text, StatRussian)),
     other       |-> Len(SelectSeq(text, StatOther)),
     total_alpha |-> Len(SelectSeq(text, IsAlpha))]

Max(a, b) == IF a >= b THEN a ELSE b
Min(a, b) == IF a <= b THEN a ELSE b

\* unwanted_ratio > 0.05, with unwanted_ratio = unwanted / max(1, total_alpha).
\* The float quotient is the correctly rounded value of the rational, and
\* 1/20 rounds to the literal 0.05, so the comparison is exact on integers.
RatioAboveThreshold(stats) ==
    (stats.arabic + stats.russian + stats.other) * 20 > Max(1, stats.total_alpha)

\* (is_valid, error_message); the message is kept as its kind
validate_response_language(response) ==
    LET stats == get_language_stats(response) IN
    IF has_unwanted(response)
        THEN [valid |-> FALSE, reason |-> "unwanted"]
    ELSE IF stats.total_alpha = 0
        THEN [valid |-> FALSE, reason |-> "no_alpha"]
    ELSE IF RatioAboveThreshold(stats)
        THEN [valid |-> FALSE, reason |-> "ratio"]
    ELSE [valid |-> TRUE, reason |-> ""]

----------------------------------------------------------------------------
(* chatbot/hybrid_retriever.py *)

\* the null of a JSON record (no code point is negative)
None == << -1 >>

\* a chunk record of the index, as build_index.py writes it
MkChunk(url, title, text) == [url |-> url, title |-> title, text |-> text]

\* the denominator of alpha: alpha = 6 is the 0.6 that test.py and
\* rag_engine.py pass, alpha = 5 the 0.5 default of the constructor
AlphaDen == 10

\* the overfetch factor of retrieve: k = min(topk * 4, len(combined))
Overfetch == 4

SeqMin(s) == CHOOSE x \in {s[i] : i \in DOMAIN s} : \A i \in DOMAIN s : x <= s[i]
SeqMax(s) == CHOOSE x \in {s[i] : i \in DOMAIN s} : \A i \in DOMAIN s : x >= s[i]

\* normalize without the test of line 61
normalizeNoGuard(scores) ==
    [num |-> [i \in DOMAIN scores |-> scores[i] - SeqMin(scores)],
     den |-> SeqMax(scores) - SeqMin(scores)]

\* normalize: the vector num/den of rationals.  Raw scores are integers, so
\* max_s - min_s < 1e-8 is max_s = min_s.
normalize(scores) ==
    LET min_s == SeqMin(scores)
        max_s == SeqMax(scores)
    IN  IF max_s - min_s < 1
            THEN [num |-> [i \in DOMAIN scores |-> 0], den |-> 1]
            ELSE [num |-> [i \in DOMAIN scores |-> scores[i] - min_s],
                  den |-> max_s - min_s]

\* the common denominator of the combined scores
CombinedDen(dense, bm25) == AlphaDen * normalize(dense).den * normalize(bm25).den

\* combined with the two weights exchanged
CombinedSwapped(a, dense, bm25) ==
    LET dn == normalize(dense)
        bn == normalize(bm25)
    IN  [i \in DOMAIN dense |->
            (AlphaDen - a) * dn.num[i] * bn.den + a * bn.num[i] * dn.den]

\* combined = alpha * dense_norm + (1 - alpha) * bm25_norm, as numerators
\* over CombinedDen
Combined(a, dense, bm25) ==
    LET dn == normalize(dense)
        bn == normalize(bm25)
    IN  [i \in DOMAIN dense |->
            a * dn.num[i] * bn.den + (AlphaDen - a) * bn.num[i] * dn.den]

\* argpartition followed by argsort of the selected part: every sequence of
\* k distinct indices in non-increasing score order whose members score at
\* least as much as every index left out.  The order of equal scores is
\* whatever the sort produces, so every order of ties is an outcome.
RECURSIVE TopIdx(_, _, _)
TopIdx(combined, S, k) ==
    IF k = 0 \/ S = {}
        THEN {<<>>}
        ELSE UNION {{<<i>> \o rest : rest \in TopIdx(combined, S \ {i}, k - 1)} :
                    i \in {j \in S : \A l \in S : combined[l] <= combined[j]}}

\* the walk over top_idx without the per-URL quota
RECURSIVE WalkNoQuota(_, _, _, _, _, _, _)
WalkNoQuota(top_idx, j, acc, per_url, combined, k, m) ==
    IF j > Len(top_idx)
        THEN acc
        ELSE
            LET i == top_idx[j]
                url == metas[i].url
            IN  IF url = None \/ url = <<>>
                    THEN WalkNoQuota(top_idx, j + 1, acc, per_url, combined, k, m)
                    ELSE
                        LET acc2 == Append(acc, [score |-> combined[i], idx |-> i])
                        IN  IF Len(acc2) >= k
                                THEN acc2
                                ELSE WalkNoQuota(top_idx, j + 1, acc2, per_url,
                                                 combined, k, m)

\* the walk leaving the loop at the first chunk without URL
RECURSIVE WalkStopsAtSkip(_, _, _, _, _, _, _)
WalkStopsAtSkip(top_idx, j, acc, per_url, combined, k, m) ==
    IF j > Len(top_idx)
        THEN acc
        ELSE
            LET i == top_idx[j]
                url == metas[i].url
                cnt == IF url \in DOMAIN per_url THEN per_url[url] ELSE 0
            IN  IF url = None \/ url = <<>>
                    THEN acc
                ELSE IF cnt >= m
                    THEN WalkStopsAtSkip(top_idx, j + 1, acc, per_url, combined, k, m)
                ELSE
                    LET acc2 == Append(acc, [score |-> combined[i], idx |-> i])
                        per2 == [u \in DOMAIN per_url \cup {url} |->
                                    IF u = url THEN cnt + 1 ELSE per_url[u]]
                    IN  IF Len(acc2) >= k
                            THEN acc2
                            ELSE WalkStopsAtSkip(top_idx, j + 1, acc2, per2,
                                                 combined, k, m)

\* the loop "for i in top_idx" of retrieve, from position j on: acc is
\* picked, per_url the counter of accepted chunks per URL; an entry of
\* picked is (combined[i], metas[i]), kept as the score and the index i
RECURSIVE Walk(_, _, _, _, _, _, _)
Walk(top_idx, j, acc, per_url, combined, k, m) ==
    IF j > Len(top_idx)
        THEN acc
        ELSE
            LET i == top_idx[j]
                url == metas[i].url
                cnt == IF url \in DOMAIN per_url THEN per_url[url] ELSE 0
            IN  IF url = None \/ url = <<>>
                    THEN Walk(top_idx, j + 1, acc, per_url, combined, k, m)
                ELSE IF cnt >= m
                    THEN Walk(top_idx, j + 1, acc, per_url, combined, k, m)
                ELSE
                    LET acc2 == Append(acc, [score |-> combined[i], idx |-> i])
                        per2 == [u \in DOMAIN per_url \cup {url} |->
                                    IF u = url THEN cnt + 1 ELSE per_url[u]]
                    IN  IF Len(acc2) >= k
                            THEN acc2
                            ELSE Walk(top_idx, j + 1, acc2, per2, combined, k, m)

\* retrieve walking over the whole index, sorted, in place of the k best
RetrieveOutcomesNoPool(a, dense, bm25, k, m) ==
    LET combined == Combined(a, dense, bm25)
    IN  {Walk(top_idx, 1, <<>>, <<>>, combined, k, m) :
            top_idx \in TopIdx(combined, DOMAIN combined, Len(combined))}

\* the lists retrieve can return for the given scores (one per order of
\* ties); the index is not empty
RetrieveOutcomes(a, dense, bm25, k, m) ==
    LET combined == Combined(a, dense, bm25)
        n == Min(k * Overfetch, Len(combined))
    IN  {Walk(top_idx, 1, <<>>, <<>>, combined, k, m) :
            top_idx \in TopIdx(combined, DOMAIN combined, n)}

----------------------------------------------------------------------------
(* chatbot/test.py: fit_sources_to_context *)

\* max_chars = max_tokens * 4
CharsPerToken == 4

\* header_chars = len(url) + len(title) + 50
HeaderReserve == 50

\* if remaining < 200: break
MinRemaining == 200

\* the marker appended to a truncated text: "..."
Ellipsis == <<46, 46, 46>>

\* s[:n] for n >= 0
Prefix(s, n) == SubSeq(s, 1, Min(n, Len(s)))

\* the last position of sep in s, 0 when there is none
LastIndexOf(s, sep) ==
    IF \E i \in 1..Len(s) : s[i] = sep
        THEN CHOOSE i \in 1..Len(s) :
                s[i] = sep /\ \A j \in (i + 1)..Len(s) : s[j] # sep
        ELSE 0

\* s.rsplit(sep, 1)[0]: what precedes the last sep, or s when there is none
RSplitHead(s, sep) ==
    IF LastIndexOf(s, sep) = 0
        THEN s
        ELSE SubSeq(s, 1, LastIndexOf(s, sep) - 1)

\* s.lstrip() and s.rstrip()
RECURSIVE LStrip(_)
LStrip(s) == IF s # <<>> /\ IsSpace(Head(s)) THEN LStrip(Tail(s)) ELSE s

RECURSIVE RStrip(_)
RStrip(s) ==
    IF s # <<>> /\ IsSpace(s[Len(s)]) THEN RStrip(SubSeq(s, 1, Len(s) - 1)) ELSE s

\* s.strip()
Strip(s) == RStrip(LStrip(s))

\* the text of a fitted source, cut without the marker of line 202
TruncateNoMarker(text, remaining) ==
    IF Len(text) > remaining
        THEN
            LET truncated == IF RSplitHead(Prefix(text, remaining), 46) = <<>>
                                THEN RSplitHead(Prefix(text, remaining), 10)
                                ELSE RSplitHead(Prefix(text, remaining), 46)
            IN  Strip(truncated)
        ELSE text

\* lines 197-202: the text of a fitted source
Truncate(text, remaining) ==
    IF Len(text) > remaining
        THEN
            LET truncated == IF RSplitHead(Prefix(text, remaining), 46) = <<>>
                                THEN RSplitHead(Prefix(text, remaining), 10)
                                ELSE RSplitHead(Prefix(text, remaining), 46)
            IN  Strip(truncated) \o Ellipsis
        ELSE text

\* the loop "for score, meta in picked" from position j on; len() of a
\* null field raises TypeError
RECURSIVE FitLoop(_, _, _, _, _)
FitLoop(pk, j, acc, total, max_chars) ==
    IF j > Len(pk)
        THEN [raised |-> FALSE, fitted |-> acc, total_chars |-> total]
        ELSE
            LET meta == pk[j].meta
            IN  IF meta.url = None \/ meta.title = None
                    THEN [raised |-> TRUE, fitted |-> <<>>, total_chars |-> total]
                ELSE
                    LET header_chars == Len(meta.url) + Len(meta.title) + HeaderReserve
                        remaining == max_chars - total - header_chars
                    IN  IF remaining < MinRemaining
                            THEN [raised |-> FALSE, fitted |-> acc,
                                  total_chars |-> total]
                        ELSE IF meta.text = None
                            THEN [raised |-> TRUE, fitted |-> <<>>,
                                  total_chars |-> total]
                        ELSE
                            LET text == Truncate(meta.text, remaining)
                            IN  FitLoop(pk, j + 1,
                                    Append(acc, [score |-> pk[j].score,
                                                 meta |-> [meta EXCEPT !.text = text]]),
                                    total + Len(text) + header_chars,
                                    max_chars)

fit_sources_to_context(pk, mt) == FitLoop(pk, 1, <<>>, 0, mt * CharsPerToken)

----------------------------------------------------------------------------
(* chatbot/test.py: the helpers of main *)

\* str.lower(): the upper-case letters the model draws from are ASCII
Lower(s) == [i \in 1..Len(s) |-> IF s[i] \in 65..90 THEN s[i] + 32 ELSE s[i]]

\* t in s
Contains(s, t) ==
    \E i \in 0..(Len(s) - Len(t)) : SubSeq(s, i + 1, i + Len(t)) = t

\* s.startswith(g)
StartsWith(s, g) == Len(g) <= Len(s) /\ SubSeq(s, 1, Len(g)) = g

\* \w of a str pattern, and the class [\w\u0590-\u05FF] of is_greeting
IsWord(c) == IsAlpha(c) \/ IsDigit(c) \/ c = 95
IsGreetingWord(c) == IsWord(c) \/ IsHebrew(c)

\* re.sub(r"[^\w\u0590-\u05FF]+", " ", q): every maximal run of other
\* characters becomes one space
RECURSIVE SubNonWord(_)
SubNonWord(q) ==
    IF q = <<>>
        THEN <<>>
    ELSE IF IsGreetingWord(Head(q))
        THEN <<Head(q)>> \o SubNonWord(Tail(q))
    ELSE IF Len(q) >= 2 /\ ~IsGreetingWord(q[2])
        THEN SubNonWord(Tail(q))
    ELSE <<32>> \o SubNonWord(Tail(q))

greetings ==
    {<<104, 105>>,
     <<104, 101, 108, 108, 111>>,
     <<104, 101, 121>>,
     <<103, 111, 111, 100, 32, 109, 111, 114, 110, 105, 110, 103>>,
     <<103, 111, 111, 100, 32, 101, 118, 101, 110, 105, 110, 103>>,
     <<115, 104, 97, 108, 111, 109>>,
     <<115, 97, 108, 97, 109>>,
     <<1513, 1500, 1493, 1501>>,
     <<1492, 1497, 1497>>,
     <<1492, 1497>>,
     <<1488, 1492, 1500, 1503>>,
     <<1505, 1500, 1488, 1501>>,
     <<1502, 1492, 32, 1504, 1513, 1502, 1506>>,
     <<1502, 1492, 32, 1511, 1493, 1512, 1492>>}

\* is_greeting with the exact match only
is_greeting_exact(q) ==
    LET n == Strip(SubNonWord(Lower(Strip(q))))
    IN  n \in greetings

\* is_greeting
is_greeting(q) ==
    LET n == Strip(SubNonWord(Lower(Strip(q))))
    IN  n \in greetings \/ \E g \in greetings : StartsWith(n, g)

\* is_too_short (main never calls it)
is_too_short(q) == Len(Strip(q)) < 4

triggers ==
    {<<1513, 1499, 1512, 32, 1500, 1497, 1502, 1493, 1491>>,
     <<1499, 1502, 1492, 32, 1506, 1493, 1500, 1492>>,
     <<1506, 1500, 1493, 1514>>,
     <<1502, 1495, 1497, 1512>>,
     <<1491, 1491, 1500, 1497, 1497, 1503>>,
     <<1502, 1493, 1506, 1491, 32, 1488, 1495, 1512, 1493, 1503>>,
     <<1514, 1488, 1512, 1497, 1498>>,
     <<1502, 1514, 1497>>,
     <<1506, 1491, 32, 1502, 1514, 1497>>,
     <<1502, 1491, 1493, 1497, 1511>>,
     <<1489, 1491, 1497, 1493, 1511>>,
     <<1505, 1499, 1493, 1501>>}

\* needs_exact_number
needs_exact_number(q) == \E t \in triggers : Contains(Lower(Strip(q)), t)

\* NUM_RE.search(txt) with NUM_RE matching \w in place of \d
HasNumberAnyWord(text) == text # None /\ \E i \in 1..Len(text) : IsWord(text[i])

\* NUM_RE.search(txt) for txt = m.get("text") or ""
HasNumber(text) == text # None /\ \E i \in 1..Len(text) : IsDigit(text[i])

\* sources_have_numbers: picked is a list of (score, meta)
sources_have_numbers(pk) == \E j \in 1..Len(pk) : HasNumber(pk[j].meta.text)

\* hebrew_ratio(text) >= 0.15 as heb / max(1, alpha) >= 15/100: the float
\* quotient is the rounded rational and the literal 0.15 rounds below 15/100
is_hebrew_strict(text) ==
    Len(SelectSeq(text, StatHebrew)) * 100 > 15 * Max(1, Len(SelectSeq(text, IsAlpha)))

is_hebrew(text) ==
    Len(SelectSeq(text, StatHebrew)) * 100 >= 15 * Max(1, Len(SelectSeq(text, IsAlpha)))

\* the defaults of --topk and --max_per_url
ArgTopK == 5
ArgMaxPerUrl == 2

\* fit_sources_to_context(picked, max_tokens=4000)
ArgMaxTokens == 4000

\* if len(ans.strip()) < 50: regenerate
MinAnswerLen == 50

\* history[-8:]
HistoryWindow == 8

\* m.get(key) or "" of build_sources_block
OrEmpty(v) == IF v = None THEN <<>> ELSE v

\* max_chars_each of build_sources_block and the marker of its cut
MaxCharsEach == 1600
BlockEllipsis == <<10, 46, 46, 46>>

\* build_sources_block: the URL, the title and the text that the block
\* shows for each source, in the order of their numbers
build_sources_block(pk) ==
    [j \in 1..Len(pk) |->
        [url |-> pk[j].meta.url,
         title |-> Strip(OrEmpty(pk[j].meta.title)),
         text |-> IF Len(Strip(OrEmpty(pk[j].meta.text))) > MaxCharsEach
                    THEN Strip(RSplitHead(Prefix(Strip(OrEmpty(pk[j].meta.text)),
                                                 MaxCharsEach), 10))
                         \o BlockEllipsis
                    ELSE Strip(OrEmpty(pk[j].meta.text))]]

\* the list retrieve returns, with the chunk record of each entry
WithMeta(pk) == [j \in 1..Len(pk) |-> [score |-> pk[j].score, meta |-> metas[pk[j].idx]]]

\* lines 304-311: the fitted sources with unwanted scripts cleaned in place
CleanSources(pk) ==
    [j \in 1..Len(pk) |->
        IF has_unwanted(pk[j].meta.text)
            THEN [pk[j] EXCEPT !.meta.text = clean_response(pk[j].meta.text)]
            ELSE pk[j]]

\* a printed line: its kind, and for an answer its text
Say(kind) == [kind |-> kind, text |-> <<>>]

\* the warnings of lines 308-309, one per source with unwanted scripts
SourceWarnings(pk) ==
    [j \in 1..Cardinality({i \in 1..Len(pk) : has_unwanted(pk[i].meta.text)}) |->
        Say("source_warning")]

----------------------------------------------------------------------------
(* chunking.py: chunk_paragraphs *)

\* "\n".join(parts)
RECURSIVE Join(_)
Join(parts) ==
    IF parts = <<>> THEN <<>>
    ELSE IF Len(parts) = 1 THEN parts[1]
    ELSE parts[1] \o <<10>> \o Join(Tail(parts))

\* s[-n:] for n > 0
Suffix(s, n) == SubSeq(s, Max(1, Len(s) - n + 1), Len(s))

\* s[a:b] for 0 <= a and 0 <= b
Slice(s, a, b) == SubSeq(s, a + 1, Min(b, Len(s)))

\* chunks.append(c), kept while the model has room for it
Record(cs, c) == IF Len(cs) < MaxOut THEN Append(cs, c) ELSE cs

\* flush(): chunks, cur and cur_len after the call
flush(cs, cr, cl, overlap) ==
    IF cr = <<>>
        THEN [chunks |-> cs, cur |-> cr, cur_len |-> cl]
        ELSE
            LET chunk == Strip(Join(cr))
            IN  [chunks |-> IF chunk # <<>> THEN Record(cs, chunk) ELSE cs,
                 cur |-> IF overlap > 0 /\ chunk # <<>>
                            THEN <<Suffix(chunk, overlap)>> ELSE <<>>,
                 cur_len |-> IF overlap > 0 /\ chunk # <<>>
                                THEN Len(Suffix(chunk, overlap)) ELSE 0]

----------------------------------------------------------------------------
(* Inputs of the language filter *)

\* a, 1, space, period, em dash (dropped by clean_response, not unwanted),
\* e-acute (a letter of no listed script), Hebrew alef, Cyrillic be,
\* Arabic beh, Arabic-Indic digit one, Arabic comma, CJK U+4E2D,
\* Hangul U+AC00, Hiragana a, Katakana a
LangChars ==
    {97, 49, 32, 46, 8212, 233, 1488, 1073, 1576, 1633, 1548, 20013, 44032,
     12354, 12450}

Rep(n, c) == [i \in 1..n |-> c]

SeqsUpTo(S, n) == UNION {[1..k -> S] : k \in 0..n}

LangInputs ==
    {Rep(n, 97) \o s : n \in 0..MaxPad, s \in SeqsUpTo(LangChars, MaxSuffix)}

\* the other components, not started
LfIdle ==
    /\ lf_pc = "off"
    /\ lf_text = <<>>
    /\ lf_found = {}
    /\ lf_valid = FALSE
    /\ lf_reason = ""
    /\ lf_clean = <<>>

RetIdle ==
    /\ metas = <<>>
    /\ alpha = 0
    /\ ret_pc = "off"
    /\ topk = 0
    /\ max_per_url = 0
    /\ dense_scores = <<>>
    /\ bm25_scores = <<>>
    /\ picked = <<>>

FitIdle ==
    /\ fit_pc = "off"
    /\ fit_picked = <<>>
    /\ max_tokens = 0
    /\ fitted = <<>>
    /\ total_chars = 0

CliIdle ==
    /\ cli_pc = "off"
    /\ history = <<>>
    /\ user_q = <<>>
    /\ main_picked = <<>>
    /\ sources = <<>>
    /\ want_he = FALSE
    /\ ans = <<>>
    /\ is_valid = FALSE
    /\ calls = 0
    /\ retrievals = 0
    /\ out = <<>>

ChunkIdle ==
    /\ ck_pc = "off"
    /\ paras = <<>>
    /\ ck_max_chars = 0
    /\ overlap_chars = 0
    /\ chunks = <<>>
    /\ cur = <<>>
    /\ cur_len = 0
    /\ ck_i = 0
    /\ start = 0
    /\ end = 0

WebIdle ==
    /\ web_pc = "off"
    /\ web_text = <<>>
    /\ web_ans = <<>>
    /\ web_calls = 0
    /\ web_msgs = <<>>
    /\ web_resp = [status |-> 0, answer |-> <<>>]

LfInit ==
    /\ WebIdle
    /\ ChunkIdle
    /\ lf_pc = "input"
    /\ lf_text \in LangInputs
    /\ lf_found = {}
    /\ lf_valid = FALSE
    /\ lf_reason = ""
    /\ lf_clean = <<>>
    /\ RetIdle
    /\ FitIdle
    /\ CliIdle

LfDetect ==
    /\ lf_pc = "input"
    /\ lf_found' = contains_unwanted_languages(lf_text)
    /\ lf_pc' = "detect"
    /\ UNCHANGED <<lf_text, lf_valid, lf_reason, lf_clean>>
    /\ UNCHANGED <<ret_vars, fit_vars, cli_vars, web_vars, ck_vars>>

LfValidate ==
    /\ lf_pc = "input"
    /\ LET r == validate_response_language(lf_text) IN
        /\ lf_valid' = r.valid
        /\ lf_reason' = r.reason
    /\ lf_found' = contains_unwanted_languages(lf_text)
    /\ lf_pc' = "validate"
    /\ UNCHANGED <<lf_text, lf_clean>>
    /\ UNCHANGED <<ret_vars, fit_vars, cli_vars, web_vars, ck_vars>>

LfClean ==
    /\ lf_pc = "input"
    /\ lf_clean' = clean_response(lf_text)
    /\ lf_pc' = "clean"
    /\ UNCHANGED <<lf_text, lf_found, lf_valid, lf_reason>>
    /\ UNCHANGED <<ret_vars, fit_vars, cli_vars, web_vars, ck_vars>>

LfNext == LfDetect \/ LfValidate \/ LfClean

SpecLang == LfInit /\ [][LfNext]_vars

----------------------------------------------------------------------------
(* Inputs and steps of the retriever *)

\* page URLs "u" and "v"
U1 == <<117>>
U2 == <<118>>

\* the URL field of a record that names no page: null or empty
NoUrls == {None, <<>>}

\* the page URLs
PageUrls == <<U1, U2>>

\* chunking.py writes the chunks of one page one after the other, so the
\* records of one URL are adjacent in the index; f[i] = 0 is a record
\* without a URL
RetCorpora ==
    UNION {{[i \in 1..n |->
                MkChunk(IF f[i] = 0 THEN e ELSE PageUrls[f[i]], <<>>, <<97>>)] :
                e \in NoUrls,
                f \in {g \in [1..n -> 0..Len(PageUrls)] :
                        \A i \in 1..(n - 1) : g[i] <= g[i + 1]}} :
           n \in 0..MaxChunks}

\* the raw scores a chunk can get for a query: a dot product and a BM25
\* score
DenseVals == {1, 3}
Bm25Vals == {0, 2}

\* the score vectors of a query: one dense and one lexical score per chunk.
\* Chunks of one URL are interchangeable for retrieve, so of the vectors
\* that differ by a permutation inside one URL only one is drawn.
ScoreInputs(ms) ==
    {sc \in [1..Len(ms) -> DenseVals] \X [1..Len(ms) -> Bm25Vals] :
        \A i \in 1..(Len(ms) - 1) :
            ms[i].url = ms[i + 1].url =>
                \/ sc[1][i] < sc[1][i + 1]
                \/ (sc[1][i] = sc[1][i + 1] /\ sc[2][i] <= sc[2][i + 1])}

RetInit ==
    /\ LfIdle
    /\ WebIdle
    /\ ChunkIdle
    /\ FitIdle
    /\ CliIdle
    /\ metas \in RetCorpora
    /\ alpha = 6
    /\ ret_pc = "built"
    /\ topk = 0
    /\ max_per_url = 0
    /\ dense_scores = <<>>
    /\ bm25_scores = <<>>
    /\ picked = <<>>

\* retrieve(query, topk, max_per_url) on a non-empty index
Retrieve ==
    /\ ret_pc = "built"
    /\ Len(metas) > 0
    /\ \E k \in 0..MaxTopK, m \in 0..MaxPerUrl, sc \in ScoreInputs(metas) :
        /\ topk' = k
        /\ max_per_url' = m
        /\ dense_scores' = sc[1]
        /\ bm25_scores' = sc[2]
        /\ picked' \in RetrieveOutcomes(alpha, sc[1], sc[2], k, m)
    /\ ret_pc' = "returned"
    /\ UNCHANGED <<metas, alpha>>
    /\ UNCHANGED <<lf_vars, fit_vars, cli_vars, web_vars, ck_vars>>

\* retrieve on an empty index: scores.min() of an empty array raises
RetrieveEmpty ==
    /\ ret_pc = "built"
    /\ Len(metas) = 0
    /\ \E k \in 0..MaxTopK, m \in 0..MaxPerUrl :
        /\ topk' = k
        /\ max_per_url' = m
    /\ ret_pc' = "raised"
    /\ UNCHANGED <<metas, alpha, dense_scores, bm25_scores, picked>>
    /\ UNCHANGED <<lf_vars, fit_vars, cli_vars, web_vars, ck_vars>>

RetNext == Retrieve \/ RetrieveEmpty

SpecRetrieve == RetInit /\ [][RetNext]_vars

\* the fusion weights 0, 0.5 and 1 the constructor accepts besides the 0.6
\* of the callers
FusionAlphas == {0, 5, 10}

\* indexes of three chunks: two pages, or two pages and a record without URL
FusionCorpora ==
    {<<MkChunk(U1, <<>>, <<97>>), MkChunk(U1, <<>>, <<97>>), MkChunk(U2, <<>>, <<97>>)>>,
     <<MkChunk(U1, <<>>, <<97>>), MkChunk(<<>>, <<>>, <<97>>), MkChunk(U2, <<>>, <<97>>)>>}

\* raw scores with values between the least and the greatest
FusionDenseVals == {1, 2, 3}
FusionBm25Vals == {0, 1, 4}

FusionScores(ms) ==
    [1..Len(ms) -> FusionDenseVals] \X [1..Len(ms) -> FusionBm25Vals]

\* HybridRetriever(E, metas, embed_model, alpha) built with one of the
\* weights
FusionInit ==
    /\ LfIdle
    /\ WebIdle
    /\ ChunkIdle
    /\ FitIdle
    /\ CliIdle
    /\ metas \in FusionCorpora
    /\ alpha \in FusionAlphas
    /\ ret_pc = "built"
    /\ topk = 0
    /\ max_per_url = 0
    /\ dense_scores = <<>>
    /\ bm25_scores = <<>>
    /\ picked = <<>>

\* retrieve(query, topk, max_per_url) for a query whose scores are any of
\* FusionScores
RetrieveFused ==
    /\ ret_pc = "built"
    /\ Len(metas) > 0
    /\ \E k \in 0..MaxTopK, m \in 0..MaxPerUrl, sc \in FusionScores(metas) :
        /\ topk' = k
        /\ max_per_url' = m
        /\ dense_scores' = sc[1]
        /\ bm25_scores' = sc[2]
        /\ picked' \in RetrieveOutcomes(alpha, sc[1], sc[2], k, m)
    /\ ret_pc' = "returned"
    /\ UNCHANGED <<metas, alpha>>
    /\ UNCHANGED <<lf_vars, fit_vars, cli_vars, web_vars, ck_vars>>

FusionNext == RetrieveFused

SpecFusion == FusionInit /\ [][FusionNext]_vars

\* indexes whose overfetch pool matters: a record without URL in front of
\* two pages; a record with a null URL, one with an empty URL and three
\* chunks of one page; four records without URL and one chunk of a page;
\* a single chunk; two pages of one chunk each
PoolCorpora ==
    {<<MkChunk(<<>>, <<>>, <<97>>), MkChunk(U1, <<>>, <<97>>), MkChunk(U1, <<>>, <<97>>),
       MkChunk(U2, <<>>, <<97>>), MkChunk(U2, <<>>, <<97>>)>>,
     <<MkChunk(None, <<>>, <<97>>), MkChunk(<<>>, <<>>, <<97>>), MkChunk(U1, <<>>, <<97>>),
       MkChunk(U1, <<>>, <<97>>), MkChunk(U1, <<>>, <<97>>)>>,
     <<MkChunk(<<>>, <<>>, <<97>>), MkChunk(<<>>, <<>>, <<97>>), MkChunk(<<>>, <<>>, <<97>>),
       MkChunk(<<>>, <<>>, <<97>>), MkChunk(U1, <<>>, <<97>>)>>,
     <<MkChunk(U1, <<>>, <<97>>)>>,
     <<MkChunk(U1, <<>>, <<97>>), MkChunk(U2, <<>>, <<97>>)>>}

\* HybridRetriever built on one of PoolCorpora with the alpha of the callers
PoolInit ==
    /\ LfIdle
    /\ WebIdle
    /\ ChunkIdle
    /\ FitIdle
    /\ CliIdle
    /\ metas \in PoolCorpora
    /\ alpha = 6
    /\ ret_pc = "built"
    /\ topk = 0
    /\ max_per_url = 0
    /\ dense_scores = <<>>
    /\ bm25_scores = <<>>
    /\ picked = <<>>

\* retrieve(query, topk, max_per_url) on one of PoolCorpora
RetrievePool ==
    /\ ret_pc = "built"
    /\ Len(metas) > 0
    /\ \E k \in 0..MaxTopK, m \in 0..MaxPerUrl, sc \in ScoreInputs(metas) :
        /\ topk' = k
        /\ max_per_url' = m
        /\ dense_scores' = sc[1]
        /\ bm25_scores' = sc[2]
        /\ picked' \in RetrieveOutcomes(alpha, sc[1], sc[2], k, m)
    /\ ret_pc' = "returned"
    /\ UNCHANGED <<metas, alpha>>
    /\ UNCHANGED <<lf_vars, fit_vars, cli_vars, web_vars, ck_vars>>

PoolNext == RetrievePool

SpecPool == PoolInit /\ [][PoolNext]_vars

----------------------------------------------------------------------------
(* Inputs and steps of the context packer *)

\* a text of n letters "a" with character c1 at position p1 and c2 at p2
\* (position 0: nowhere)
Fill(n, p1, c1, p2, c2) ==
    [i \in 1..n |-> IF i = p1 THEN c1 ELSE IF i = p2 THEN c2 ELSE 97]

\* texts around a remaining budget of 201..208 characters: short, exactly
\* fitting, too long without a boundary, with a period inside, at the end of
\* or beyond the cut, with a newline only, with a period at the start and a
\* newline, with a space before the period
FitTexts ==
    {Fill(150, 0, 0, 0, 0), Fill(201, 0, 0, 0, 0), Fill(202, 0, 0, 0, 0),
     Fill(210, 0, 0, 0, 0), Fill(210, 100, 46, 0, 0), Fill(210, 201, 46, 0, 0),
     Fill(210, 205, 46, 0, 0), Fill(210, 150, 10, 0, 0),
     Fill(210, 1, 46, 150, 10), Fill(210, 101, 46, 100, 32)}

\* the chunk records of a source list: a page URL, a title that is empty,
\* "t" or null, and a text
FitMetas ==
    {MkChunk(U1, title, text) : title \in {<<>>, <<116>>}, text \in FitTexts}
    \cup {MkChunk(U1, None, Fill(150, 0, 0, 0, 0)),
          MkChunk(None, <<>>, Fill(150, 0, 0, 0, 0))}

\* token budgets that leave 197 (too few), 201 or 205 characters for one
\* source after its header, and room for a second source after a first
FitBudgets == {62, 63, 64, 128, 130}

FitInit ==
    /\ LfIdle
    /\ WebIdle
    /\ ChunkIdle
    /\ RetIdle
    /\ CliIdle
    /\ fit_pc = "input"
    /\ fit_picked \in UNION {[1..n -> [score : {1}, meta : FitMetas]] :
                                n \in 0..MaxSources}
    /\ max_tokens \in FitBudgets
    /\ fitted = <<>>
    /\ total_chars = 0

\* fit_sources_to_context without the break of line 194: the source that
\* reaches the limit is returned as well
FitKeepsLast ==
    /\ fit_pc = "input"
    /\ LET r == fit_sources_to_context(fit_picked, max_tokens) IN
        /\ ~r.raised
        /\ fitted' = IF Len(r.fitted) < Len(fit_picked)
                        THEN Append(r.fitted, fit_picked[Len(r.fitted) + 1])
                        ELSE r.fitted
        /\ total_chars' = r.total_chars
    /\ fit_pc' = "returned"
    /\ UNCHANGED <<fit_picked, max_tokens>>
    /\ UNCHANGED <<lf_vars, ret_vars, cli_vars, web_vars, ck_vars>>

\* fit_sources_to_context(picked, max_tokens) returns
Fit ==
    /\ fit_pc = "input"
    /\ LET r == fit_sources_to_context(fit_picked, max_tokens) IN
        /\ ~r.raised
        /\ fitted' = r.fitted
        /\ total_chars' = r.total_chars
    /\ fit_pc' = "returned"
    /\ UNCHANGED <<fit_picked, max_tokens>>
    /\ UNCHANGED <<lf_vars, ret_vars, cli_vars, web_vars, ck_vars>>

\* fit_sources_to_context(picked, max_tokens) raises TypeError
FitRaises ==
    /\ fit_pc = "input"
    /\ fit_sources_to_context(fit_picked, max_tokens).raised
    /\ fit_pc' = "raised"
    /\ UNCHANGED <<fit_picked, max_tokens, fitted, total_chars>>
    /\ UNCHANGED <<lf_vars, ret_vars, cli_vars, web_vars, ck_vars>>

FitNext == Fit \/ FitRaises

SpecFit == FitInit /\ [][FitNext]_vars

----------------------------------------------------------------------------
(* Inputs and steps of the CLI loop (main of chatbot/test.py) *)

\* the lines typed at the prompt: "", "  ", "exit", "QUIT", "reset",
\* "clear", "hi", "Hi!", "hit", "shalom mehir" in Hebrew (a greeting
\* followed by the trigger "price"), "abc", and the trigger "mehir" alone
Queries ==
    {<<>>, <<32, 32>>,
     <<101, 120, 105, 116>>, <<81, 85, 73, 84>>,
     <<114, 101, 115, 101, 116>>, <<99, 108, 101, 97, 114>>,
     <<104, 105>>, <<72, 105, 33>>, <<104, 105, 116>>,
     <<1513, 1500, 1493, 1501, 32, 1502, 1495, 1497, 1512>>,
     <<97, 98, 99>>,
     <<1502, 1495, 1497, 1512>>}

\* chunk records of the index of the CLI: a text with a digit, a text
\* with a Cyrillic letter and no digit, a record with a null title, a
\* record with an empty URL
ChunkDigit == MkChunk(U1, <<116>>, <<97, 49>>)
ChunkCyrillic == MkChunk(U2, <<>>, <<97, 1073>>)
ChunkNoTitle == MkChunk(U1, None, <<97, 98>>)
ChunkNoUrl == MkChunk(<<>>, <<>>, <<97, 49>>)

\* the indexes the CLI is started on
CliCorpora ==
    {<<ChunkDigit>>, <<ChunkCyrillic>>, <<ChunkNoTitle>>, <<ChunkNoUrl>>,
     <<ChunkDigit, ChunkCyrillic>>, <<ChunkNoUrl, ChunkCyrillic>>}

\* what ollama_chat can return: 50 letters; 49 letters and a Cyrillic
\* letter (cleaned to 49 characters); 49 letters, a space and a Cyrillic
\* letter (cleaned to 50 characters, 49 when stripped); 50 letters and a
\* Cyrillic letter (cleaned to 50); 50 letters and an Arabic-Indic digit
Responses ==
    {Rep(MinAnswerLen, 97),
     Rep(MinAnswerLen - 1, 97) \o <<1073>>,
     Rep(MinAnswerLen - 1, 97) \o <<32, 1073>>,
     Rep(MinAnswerLen, 97) \o <<1073>>,
     Rep(MinAnswerLen, 97) \o <<1633>>}

CliInit ==
    /\ LfIdle
    /\ WebIdle
    /\ ChunkIdle
    /\ FitIdle
    /\ metas \in CliCorpora
    /\ alpha = 6
    /\ ret_pc = "built"
    /\ topk = 0
    /\ max_per_url = 0
    /\ dense_scores = <<>>
    /\ bm25_scores = <<>>
    /\ picked = <<>>
    /\ cli_pc = "prompt"
    /\ history = <<>>
    /\ user_q = <<>>
    /\ main_picked = <<>>
    /\ sources = <<>>
    /\ want_he = FALSE
    /\ ans = <<>>
    /\ is_valid = FALSE
    /\ calls = 0
    /\ retrievals = 0
    /\ out = <<>>

\* what the retriever's own variables keep while main runs
RetFrame == UNCHANGED <<metas, alpha, ret_pc, topk, max_per_url,
                        dense_scores, bm25_scores>>

\* lines 271-273: an empty line, nothing is printed
CliEmpty ==
    /\ cli_pc = "prompt"
    /\ \E raw \in Queries :
        /\ Strip(raw) = <<>>
        /\ user_q' = Strip(raw)
    /\ picked' = <<>>
    /\ main_picked' = <<>>
    /\ sources' = <<>>
    /\ want_he' = FALSE
    /\ ans' = <<>>
    /\ is_valid' = FALSE
    /\ calls' = 0
    /\ retrievals' = 0
    /\ out' = <<>>
    /\ UNCHANGED <<cli_pc, history>>
    /\ RetFrame
    /\ UNCHANGED <<lf_vars, fit_vars, web_vars, ck_vars>>

\* lines 274-275: exit or quit
CliExit ==
    /\ cli_pc = "prompt"
    /\ \E raw \in Queries :
        /\ Strip(raw) # <<>>
        /\ Lower(Strip(raw)) \in {<<101, 120, 105, 116>>, <<113, 117, 105, 116>>}
        /\ user_q' = Strip(raw)
    /\ cli_pc' = "exited"
    /\ picked' = <<>>
    /\ main_picked' = <<>>
    /\ sources' = <<>>
    /\ want_he' = FALSE
    /\ ans' = <<>>
    /\ is_valid' = FALSE
    /\ calls' = 0
    /\ retrievals' = 0
    /\ out' = <<>>
    /\ UNCHANGED history
    /\ RetFrame
    /\ UNCHANGED <<lf_vars, fit_vars, web_vars, ck_vars>>

\* user_q is neither empty nor exit / quit
PastExit(q) ==
    /\ q # <<>>
    /\ Lower(q) \notin {<<101, 120, 105, 116>>, <<113, 117, 105, 116>>}

IsReset(q) ==
    Lower(q) \in {<<114, 101, 115, 101, 116>>, <<99, 108, 101, 97, 114>>}

\* lines 277-280: reset or clear
CliReset ==
    /\ cli_pc = "prompt"
    /\ \E raw \in Queries :
        /\ PastExit(Strip(raw))
        /\ IsReset(Strip(raw))
        /\ user_q' = Strip(raw)
    /\ history' = <<>>
    /\ picked' = <<>>
    /\ main_picked' = <<>>
    /\ sources' = <<>>
    /\ want_he' = FALSE
    /\ ans' = <<>>
    /\ is_valid' = FALSE
    /\ calls' = 0
    /\ retrievals' = 0
    /\ out' = <<Say("reset")>>
    /\ UNCHANGED cli_pc
    /\ RetFrame
    /\ UNCHANGED <<lf_vars, fit_vars, web_vars, ck_vars>>

\* lines 282-285: a greeting
CliGreeting ==
    /\ cli_pc = "prompt"
    /\ \E raw \in Queries :
        /\ PastExit(Strip(raw))
        /\ ~IsReset(Strip(raw))
        /\ is_greeting(Strip(raw))
        /\ user_q' = Strip(raw)
    /\ history' = <<>>
    /\ picked' = <<>>
    /\ main_picked' = <<>>
    /\ sources' = <<>>
    /\ want_he' = FALSE
    /\ ans' = <<>>
    /\ is_valid' = FALSE
    /\ calls' = 0
    /\ retrievals' = 0
    /\ out' = <<Say("greeting")>>
    /\ UNCHANGED cli_pc
    /\ RetFrame
    /\ UNCHANGED <<lf_vars, fit_vars, web_vars, ck_vars>>

\* the lines that reach retriever.retrieve (line 287)
Retrieves(q) == PastExit(q) /\ ~IsReset(q) /\ ~is_greeting(q)

\* the lists retriever.retrieve(user_q, topk, max_per_url) can return to
\* main: the scores of the query are whatever the two indices give
MainRetrieve ==
    UNION {RetrieveOutcomes(alpha, sc[1], sc[2], ArgTopK, ArgMaxPerUrl) :
            sc \in ScoreInputs(metas)}

\* fit_sources_to_context appending the record of the index itself
FittedSharesRecord == TRUE

\* line 205: fitted_meta = {**meta, 'text': text} is a new dict, so no
\* record of fitted is a record of the index
FittedShares == FALSE

\* self.metas after lines 300-311 for the retrieved list r: the writes to
\* m["text"] reach the index only through a shared record
IndexAfterFit(r) ==
    LET cleaned == CleanSources(fit_sources_to_context(WithMeta(r), ArgMaxTokens).fitted)
    IN  IF FittedShares
            THEN [i \in DOMAIN metas |->
                    IF \E j \in 1..Len(cleaned) : r[j].idx = i
                        THEN (CHOOSE c \in {cleaned[j] : j \in {l \in 1..Len(cleaned) :
                                                                r[l].idx = i}} : TRUE).meta
                        ELSE metas[i]]
            ELSE metas

\* the numeric guard of line 293 lets the query through
PassesGuard(q, r) == ~(needs_exact_number(q) /\ ~sources_have_numbers(WithMeta(r)))

\* lines 293-298: the reply of the numeric guard
NotFound(q, r) ==
    /\ ~PassesGuard(q, r)
    /\ main_picked' = WithMeta(r)
    /\ sources' = <<>>
    /\ want_he' = FALSE
    /\ calls' = 0
    /\ out' = <<Say("notfound")>>
    /\ UNCHANGED <<cli_pc, history, metas>>

\* line 300: fit_sources_to_context raises TypeError on a null title, which
\* nothing catches
FitCrash(q, r) ==
    /\ PassesGuard(q, r)
    /\ fit_sources_to_context(WithMeta(r), ArgMaxTokens).raised
    /\ main_picked' = WithMeta(r)
    /\ sources' = <<>>
    /\ want_he' = FALSE
    /\ cli_pc' = "crashed"
    /\ calls' = 0
    /\ out' = <<Say("traceback")>>
    /\ UNCHANGED <<history, metas>>

\* lines 300-349: packing, cleaning of the sources, the prompt, and the
\* first ollama_chat request
Ask(q, r) ==
    /\ PassesGuard(q, r)
    /\ ~fit_sources_to_context(WithMeta(r), ArgMaxTokens).raised
    /\ Len(history) < 2 * MaxPairs
    /\ main_picked' = CleanSources(fit_sources_to_context(WithMeta(r), ArgMaxTokens).fitted)
    /\ sources' = build_sources_block(fit_sources_to_context(WithMeta(r), ArgMaxTokens).fitted)
    /\ metas' = IndexAfterFit(r)
    /\ want_he' = is_hebrew(q)
    /\ out' = <<Say("fit")>>
              \o SourceWarnings(fit_sources_to_context(WithMeta(r), ArgMaxTokens).fitted)
    /\ cli_pc' = "call1"
    /\ calls' = 1
    /\ UNCHANGED history

\* lines 287-349: a line that is no command and no greeting: retrieval, the
\* numeric guard, packing and the first request
CliQuery ==
    /\ cli_pc = "prompt"
    /\ \E r \in MainRetrieve, raw \in Queries :
        /\ Retrieves(Strip(raw))
        /\ user_q' = Strip(raw)
        /\ picked' = r
        /\ \/ NotFound(Strip(raw), r)
           \/ FitCrash(Strip(raw), r)
           \/ Ask(Strip(raw), r)
    /\ ans' = <<>>
    /\ is_valid' = FALSE
    /\ retrievals' = 1
    /\ UNCHANGED <<alpha, ret_pc, topk, max_per_url, dense_scores, bm25_scores>>
    /\ UNCHANGED <<lf_vars, fit_vars, web_vars, ck_vars>>

\* the answer printed and only the user message appended to history
EmitUserOnly(a, valid, said) ==
    /\ ans' = a
    /\ is_valid' = valid
    /\ out' = out \o said \o <<[kind |-> "answer", text |-> Strip(a)]>>
    /\ history' = history \o <<[role |-> "user", content |-> user_q]>>
    /\ cli_pc' = "prompt"

\* lines 387-410: print the answer, log it, append the pair to history
Emit(a, valid, said) ==
    /\ ans' = a
    /\ is_valid' = valid
    /\ out' = out \o said \o <<[kind |-> "answer", text |-> Strip(a)]>>
    /\ history' = history \o <<[role |-> "user", content |-> user_q],
                               [role |-> "assistant", content |-> Strip(a)]>>
    /\ cli_pc' = "prompt"

\* lines 342-361, 387-410: the first call returns a valid answer, or one
\* whose cleaned text has at least 50 characters
CliAnswer1 ==
    /\ cli_pc = "call1"
    /\ \E resp \in Responses :
        LET v == validate_response_language(resp) IN
        IF v.valid
            THEN Emit(resp, TRUE, <<>>)
            ELSE /\ Len(Strip(clean_response(resp))) >= MinAnswerLen
                 /\ Emit(clean_response(resp), FALSE, <<Say("warning")>>)
    /\ UNCHANGED <<user_q, main_picked, sources, want_he, calls, retrievals, picked>>
    /\ RetFrame
    /\ UNCHANGED <<lf_vars, fit_vars, web_vars, ck_vars>>

\* the second request sent for every invalid first answer
CliRegenerateAlways ==
    /\ cli_pc = "call1"
    /\ \E resp \in Responses :
        /\ ~validate_response_language(resp).valid
        /\ ans' = clean_response(resp)
    /\ is_valid' = FALSE
    /\ out' = out \o <<Say("warning"), Say("regenerate")>>
    /\ cli_pc' = "call2"
    /\ calls' = calls + 1
    /\ UNCHANGED <<history, user_q, main_picked, sources, want_he, retrievals, picked>>
    /\ RetFrame
    /\ UNCHANGED <<lf_vars, fit_vars, web_vars, ck_vars>>

\* lines 342-379: the first call returns an invalid answer whose cleaned
\* text is shorter than 50 characters; the second request is sent
CliRegenerate ==
    /\ cli_pc = "call1"
    /\ \E resp \in Responses :
        /\ ~validate_response_language(resp).valid
        /\ Len(Strip(clean_response(resp))) < MinAnswerLen
        /\ ans' = clean_response(resp)
    /\ is_valid' = FALSE
    /\ out' = out \o <<Say("warning"), Say("regenerate")>>
    /\ cli_pc' = "call2"
    /\ calls' = calls + 1
    /\ UNCHANGED <<history, user_q, main_picked, sources, want_he, retrievals, picked>>
    /\ RetFrame
    /\ UNCHANGED <<lf_vars, fit_vars, web_vars, ck_vars>>

\* the second call with an invalid answer asking the model once more
CliAnswer2Again ==
    /\ cli_pc = "call2"
    /\ \E resp \in Responses :
        LET v == validate_response_language(resp) IN
        IF v.valid
            THEN /\ Emit(resp, TRUE, <<>>)
                 /\ calls' = calls
            ELSE /\ ans' = clean_response(resp)
                 /\ is_valid' = FALSE
                 /\ out' = out \o <<Say("regenerate")>>
                 /\ calls' = calls + 1
                 /\ UNCHANGED <<cli_pc, history>>
    /\ UNCHANGED <<user_q, main_picked, sources, want_he, retrievals, picked>>
    /\ RetFrame
    /\ UNCHANGED <<lf_vars, fit_vars, web_vars, ck_vars>>

\* lines 372-410: the second call returns; an invalid answer is cleaned
CliAnswer2 ==
    /\ cli_pc = "call2"
    /\ \E resp \in Responses :
        LET v == validate_response_language(resp) IN
        IF v.valid
            THEN Emit(resp, TRUE, <<>>)
            ELSE Emit(clean_response(resp), FALSE, <<Say("force_clean")>>)
    /\ UNCHANGED <<user_q, main_picked, sources, want_he, calls, retrievals, picked>>
    /\ RetFrame
    /\ UNCHANGED <<lf_vars, fit_vars, web_vars, ck_vars>>

\* the handler of lines 403-406 falling through to lines 409-410
CallFailsAppends ==
    /\ out' = out \o <<Say("error")>>
    /\ cli_pc' = "prompt"
    /\ history' = history \o <<[role |-> "user", content |-> user_q],
                               [role |-> "assistant", content |-> Strip(ans)]>>
    /\ UNCHANGED <<user_q, main_picked, sources, want_he, ans, is_valid, calls,
                   retrievals, picked>>
    /\ RetFrame
    /\ UNCHANGED <<lf_vars, fit_vars, web_vars, ck_vars>>

\* lines 403-406: requests.RequestException of either call; the message is
\* printed and the loop continues
CallFails ==
    /\ out' = out \o <<Say("error")>>
    /\ cli_pc' = "prompt"
    /\ UNCHANGED <<history, user_q, main_picked, sources, want_he, ans, is_valid, calls,
                   retrievals, picked>>
    /\ RetFrame
    /\ UNCHANGED <<lf_vars, fit_vars, web_vars, ck_vars>>

CliCall1Fails == cli_pc = "call1" /\ CallFails

CliCall2Fails == cli_pc = "call2" /\ CallFails

CliNext ==
    \/ CliEmpty \/ CliExit \/ CliReset \/ CliGreeting \/ CliQuery
    \/ CliAnswer1 \/ CliRegenerate \/ CliAnswer2
    \/ CliCall1Fails \/ CliCall2Fails

SpecCLI == CliInit /\ [][CliNext]_vars

\* the queries is_hebrew is applied to: Hebrew points (in the Hebrew range,
\* not alphabetic), Hebrew letters, Latin letters and digits
RatioQueries ==
    {Rep(p, 1460) \o Rep(h, 1488) \o Rep(l, 97) \o Rep(d, 49) :
        p \in 0..1, h \in 0..MaxHebrew, l \in 0..MaxLatin, d \in 0..1}

RatioInit ==
    /\ LfIdle
    /\ RetIdle
    /\ FitIdle
    /\ WebIdle
    /\ ChunkIdle
    /\ cli_pc = "query"
    /\ user_q \in RatioQueries
    /\ history = <<>>
    /\ main_picked = <<>>
    /\ sources = <<>>
    /\ want_he = FALSE
    /\ ans = <<>>
    /\ is_valid = FALSE
    /\ calls = 0
    /\ retrievals = 0
    /\ out = <<>>

\* lines 313-322: want_he = is_hebrew(user_q) and rule 5 of system_msg
WantHe ==
    /\ cli_pc = "query"
    /\ want_he' = is_hebrew(user_q)
    /\ cli_pc' = "instructed"
    /\ UNCHANGED <<history, user_q, main_picked, sources, ans, is_valid, calls,
                   retrievals, out>>
    /\ UNCHANGED <<lf_vars, ret_vars, fit_vars, web_vars, ck_vars>>

RatioNext == WantHe

SpecRatio == RatioInit /\ [][RatioNext]_vars

----------------------------------------------------------------------------
(* Inputs and steps of the web application (webapp/app.py api_send_async,
   webapp/rag_engine.py RagEngine.answer) *)

\* BAD_SCRIPT_RE: Cyrillic, the five Arabic blocks, Hangul
BadScriptRanges ==
    {<<1024, 1279>>, <<1536, 1791>>, <<1872, 1919>>, <<2208, 2303>>,
     <<64336, 65023>>, <<65136, 65279>>, <<44032, 55215>>}

\* BAD_SCRIPT_RE.search(text) finds a match
BAD_SCRIPT_RE(text) ==
    \E i \in 1..Len(text) :
        \E r \in BadScriptRanges : r[1] <= text[i] /\ text[i] <= r[2]

\* topk of RagEngine.__init__ and max_per_url of RagEngine.answer
WebTopK == 5
WebMaxPerUrl == 2

\* payload["text"] of a request: "", " ", "hi", the Hebrew trigger "mehir"
WebTexts == {<<>>, <<32>>, <<104, 105>>, <<1502, 1495, 1497, 1512>>}

\* what RagEngine.ollama_chat can return: a letter followed by nothing, a
\* space, a Cyrillic letter, an Arabic-Indic digit, or a Chinese character
WebResponses ==
    {<<97>>, <<97, 32>>, <<97, 1073>>, <<97, 1633>>, <<97, 20013>>}

WebInit ==
    /\ LfIdle
    /\ ChunkIdle
    /\ FitIdle
    /\ CliIdle
    /\ metas \in CliCorpora
    /\ alpha = 6
    /\ ret_pc = "built"
    /\ topk = 0
    /\ max_per_url = 0
    /\ dense_scores = <<>>
    /\ bm25_scores = <<>>
    /\ picked = <<>>
    /\ web_pc = "idle"
    /\ web_text = <<>>
    /\ web_ans = <<>>
    /\ web_calls = 0
    /\ web_msgs = <<>>
    /\ web_resp = [status |-> 0, answer |-> <<>>]

\* the lists self.retriever.retrieve(query, topk, max_per_url) can return
WebRetrieve ==
    UNION {RetrieveOutcomes(alpha, sc[1], sc[2], WebTopK, WebMaxPerUrl) :
            sc \in ScoreInputs(metas)}

\* app.py lines 170-172: an empty text is answered with status 400
WebSendEmpty ==
    /\ web_pc = "idle"
    /\ \E raw \in WebTexts : Strip(raw) = <<>>
    /\ web_text' = <<>>
    /\ web_ans' = <<>>
    /\ web_calls' = 0
    /\ web_resp' = [status |-> 400, answer |-> <<>>]
    /\ UNCHANGED <<web_pc, web_msgs>>
    /\ UNCHANGED <<lf_vars, ret_vars, fit_vars, cli_vars, ck_vars>>

\* app.py lines 174-186, rag_engine.py lines 77-95: the user message is
\* committed, the chunks are retrieved and the first request is sent
WebSend ==
    /\ web_pc = "idle"
    /\ Len(web_msgs) < 2 * MaxPairs
    /\ \E r \in WebRetrieve, raw \in WebTexts :
        /\ Strip(raw) # <<>>
        /\ web_text' = Strip(raw)
        /\ web_msgs' = Append(web_msgs, [role |-> "user", content |-> Strip(raw)])
        /\ picked' = r
    /\ web_ans' = <<>>
    /\ web_calls' = 1
    /\ web_resp' = [status |-> 0, answer |-> <<>>]
    /\ web_pc' = "call1"
    /\ RetFrame
    /\ UNCHANGED <<lf_vars, fit_vars, cli_vars, ck_vars>>

\* what is left of the retriever's variables when answer is left: picked
\* and ans are its locals
WebLeave ==
    /\ picked' = <<>>
    /\ RetFrame

\* rag_engine.py line 121, app.py lines 188-192: the answer is stripped,
\* stored as the assistant message and returned
WebReturn(a) ==
    /\ web_ans' = <<>>
    /\ web_msgs' = Append(web_msgs, [role |-> "assistant", content |-> Strip(a)])
    /\ web_resp' = [status |-> 200, answer |-> Strip(a)]
    /\ web_pc' = "idle"
    /\ UNCHANGED <<web_text, web_calls>>

\* rag_engine.py lines 91-98: the first call returns a text in which
\* BAD_SCRIPT_RE finds nothing
WebAnswer1 ==
    /\ web_pc = "call1"
    /\ \E resp \in WebResponses :
        /\ ~BAD_SCRIPT_RE(resp)
        /\ WebReturn(resp)
    /\ WebLeave
    /\ UNCHANGED <<lf_vars, fit_vars, cli_vars, ck_vars>>

\* rag_engine.py lines 98-109: BAD_SCRIPT_RE matches the first answer and
\* the rewrite request is sent
WebRewrite ==
    /\ web_pc = "call1"
    /\ \E resp \in WebResponses :
        /\ BAD_SCRIPT_RE(resp)
        /\ web_ans' = resp
    /\ web_pc' = "call2"
    /\ web_calls' = web_calls + 1
    /\ UNCHANGED <<web_text, web_msgs, web_resp>>
    /\ UNCHANGED <<lf_vars, ret_vars, fit_vars, cli_vars, ck_vars>>

\* rag_engine.py lines 104-121: the rewrite is returned as it comes
WebAnswer2 ==
    /\ web_pc = "call2"
    /\ \E resp \in WebResponses : WebReturn(resp)
    /\ WebLeave
    /\ UNCHANGED <<lf_vars, fit_vars, cli_vars, ck_vars>>

\* rag_engine.py lines 72-73: the exception of a failed request leaves
\* answer and api_send_async; the response has status 500
WebCallFails ==
    /\ web_resp' = [status |-> 500, answer |-> <<>>]
    /\ web_pc' = "idle"
    /\ web_ans' = <<>>
    /\ UNCHANGED <<web_text, web_calls, web_msgs>>
    /\ WebLeave
    /\ UNCHANGED <<lf_vars, fit_vars, cli_vars, ck_vars>>

WebCall1Fails == web_pc = "call1" /\ WebCallFails

WebCall2Fails == web_pc = "call2" /\ WebCallFails

WebNext ==
    \/ WebSendEmpty \/ WebSend \/ WebAnswer1 \/ WebRewrite \/ WebAnswer2
    \/ WebCall1Fails \/ WebCall2Fails

SpecWeb == WebInit /\ [][WebNext]_vars

\* either orchestrator: the CLI loop or the web application
OrchInit == CliInit \/ WebInit

OrchNext == CliNext \/ WebNext

SpecOrch == OrchInit /\ [][OrchNext]_vars

----------------------------------------------------------------------------
(* Inputs and steps of chunk_paragraphs (chunking.py) *)

\* paragraphs as split_into_paragraphs gives them: stripped, not empty, no
\* newline; runs of letters and one paragraph with a space inside
ParaTexts == {Rep(n, 97) : n \in 1..MaxParaLen} \cup {<<97, 32, 97>>}

\* values of max_chars; overlap_chars is any of 0 .. max_chars - 1
ChunkMaxChars == {2, 3}

ChunkInit ==
    /\ LfIdle
    /\ RetIdle
    /\ FitIdle
    /\ CliIdle
    /\ WebIdle
    /\ ck_pc = "loop"
    /\ paras \in UNION {[1..n -> ParaTexts] : n \in 0..MaxParas}
    /\ ck_max_chars \in ChunkMaxChars
    /\ overlap_chars \in 0..(ck_max_chars - 1)
    /\ chunks = <<>>
    /\ cur = <<>>
    /\ cur_len = 0
    /\ ck_i = 1
    /\ start = 0
    /\ end = 0

ChunkFrame == UNCHANGED <<lf_vars, ret_vars, fit_vars, cli_vars, web_vars>>

\* lines 55-61: one iteration of the for loop for a paragraph of at most
\* max_chars characters
ChunkPara ==
    /\ ck_pc = "loop"
    /\ ck_i <= Len(paras)
    /\ Len(paras[ck_i]) <= ck_max_chars
    /\ LET p == paras[ck_i]
           f == flush(chunks, cur, cur_len, overlap_chars)
       IN  IF cur_len + Len(p) + 1 <= ck_max_chars
               THEN /\ cur' = Append(cur, p)
                    /\ cur_len' = cur_len + Len(p) + 1
                    /\ UNCHANGED chunks
               ELSE /\ chunks' = f.chunks
                    /\ cur' = Append(f.cur, p)
                    /\ cur_len' = Len(p)
    /\ ck_i' = ck_i + 1
    /\ UNCHANGED <<ck_pc, paras, ck_max_chars, overlap_chars, start, end>>
    /\ ChunkFrame

\* lines 43-46: a paragraph longer than max_chars; cur is flushed and the
\* while loop is entered
ChunkHuge ==
    /\ ck_pc = "loop"
    /\ ck_i <= Len(paras)
    /\ Len(paras[ck_i]) > ck_max_chars
    /\ LET f == flush(chunks, cur, cur_len, overlap_chars)
       IN  /\ chunks' = f.chunks
           /\ cur' = f.cur
           /\ cur_len' = f.cur_len
    /\ start' = 0
    /\ ck_pc' = "split"
    /\ UNCHANGED <<paras, ck_max_chars, overlap_chars, ck_i, end>>
    /\ ChunkFrame

\* lines 47-51: the while condition holds; the part p[start:end] is
\* appended
SplitPart ==
    /\ ck_pc = "split"
    /\ start < Len(paras[ck_i])
    /\ LET p == paras[ck_i]
           e == Min(Len(p), start + ck_max_chars)
           part == Strip(Slice(p, start, e))
       IN  /\ end' = e
           /\ chunks' = IF part # <<>> THEN Record(chunks, part) ELSE chunks
    /\ ck_pc' = "advance"
    /\ UNCHANGED <<paras, ck_max_chars, overlap_chars, cur, cur_len, ck_i, start>>
    /\ ChunkFrame

\* line 52: start = max(0, end - overlap_chars) if overlap_chars > 0 else
\* end
SplitAdvance ==
    /\ ck_pc = "advance"
    /\ start' = IF overlap_chars > 0 THEN Max(0, end - overlap_chars) ELSE end
    /\ ck_pc' = "split"
    /\ UNCHANGED <<paras, ck_max_chars, overlap_chars, chunks, cur, cur_len,
                   ck_i, end>>
    /\ ChunkFrame

\* lines 47, 53: the while condition fails; continue with the next
\* paragraph
SplitDone ==
    /\ ck_pc = "split"
    /\ start >= Len(paras[ck_i])
    /\ ck_i' = ck_i + 1
    /\ ck_pc' = "loop"
    /\ UNCHANGED <<paras, ck_max_chars, overlap_chars, chunks, cur, cur_len,
                   start, end>>
    /\ ChunkFrame

\* lines 63-64: the for loop is over; the last flush and the return
ChunkReturn ==
    /\ ck_pc = "loop"
    /\ ck_i > Len(paras)
    /\ LET f == flush(chunks, cur, cur_len, overlap_chars)
       IN  /\ chunks' = f.chunks
           /\ cur' = f.cur
           /\ cur_len' = f.cur_len
    /\ ck_pc' = "done"
    /\ UNCHANGED <<paras, ck_max_chars, overlap_chars, ck_i, start, end>>
    /\ ChunkFrame

ChunkNext ==
    \/ ChunkPara \/ ChunkHuge \/ SplitPart \/ SplitAdvance \/ SplitDone
    \/ ChunkReturn

\* the interpreter runs the next statement of chunk_paragraphs as long as
\* there is one
SpecChunk == ChunkInit /\ [][ChunkNext]_vars /\ WF_vars(ChunkNext)

----------------------------------------------------------------------------
(* Properties of the context packer *)

\* the cumulative character cost of a returned list: text length plus
\* URL, title and the 50 reserved characters of each source
RECURSIVE CostOf(_)
CostOf(srcs) ==
    IF srcs = <<>>
        THEN 0
        ELSE Len(Head(srcs).meta.text) + Len(Head(srcs).meta.url)
             + Len(Head(srcs).meta.title) + 50 + CostOf(Tail(srcs))

\* C2: the sources returned by fit_sources_to_context have a cumulative
\* character cost that never exceeds max_tokens * 4, including when a text
\* is truncated and the ellipsis marker is appended.
C2_CostWithinBudget ==
    fit_pc = "returned" => CostOf(fitted) <= max_tokens * 4

\* what is left for the text of a single source after its header
Remaining1 ==
    max_tokens * 4 - (Len(fit_picked[1].meta.url) + Len(fit_picked[1].meta.title) + 50)

\* the position of the last period among the first n characters of t, 0
\* when there is none
LastPeriod(t, n) ==
    IF \E i \in 1..n : i <= Len(t) /\ t[i] = 46
        THEN CHOOSE i \in 1..n :
                /\ i <= Len(t) /\ t[i] = 46
                /\ \A j \in (i + 1)..n : j > Len(t) \/ t[j] # 46
        ELSE 0

\* the text t cut before position p, stripped, with the marker
CutAt(t, p) == Strip(SubSeq(t, 1, p - 1)) \o <<46, 46, 46>>

C15_NeverRaises ==
    fit_pc # "input" =>
        /\ fit_pc = "returned"
        /\ Len(fitted) <= Len(fit_picked)

\* the position of the last newline among the first n characters of t, 0
\* when there is none
LastNewline(t, n) ==
    IF \E i \in 1..n : i <= Len(t) /\ t[i] = 10
        THEN CHOOSE i \in 1..n :
                /\ i <= Len(t) /\ t[i] = 10
                /\ \A j \in (i + 1)..n : j > Len(t) \/ t[j] # 10
        ELSE 0

\* C22: a single source whose text exceeds the remaining budget and has no
\* period within the budget is cut at the last newline within the budget;
\* with neither a period nor a newline it is cut at the character limit;
\* the ellipsis marker is appended in both cases.
C22_NewlineFallback ==
    (fit_pc = "returned" /\ Len(fit_picked) = 1 /\ Remaining1 >= 200) =>
        LET t == fit_picked[1].meta.text
            nl == LastNewline(t, Remaining1)
        IN  (Len(t) > Remaining1 /\ LastPeriod(t, Remaining1) = 0) =>
                /\ Len(fitted) = 1
                /\ nl > 0 => fitted[1].meta.text = CutAt(t, nl)
                /\ nl = 0 => fitted[1].meta.text = CutAt(t, Remaining1 + 1)

\* the characters reserved for the header of a source
HeaderOf(m) == Len(m.url) + Len(m.title) + 50

\* the budget left for the text of input source i, after the sources
\* returned before it and its own header
RemainingAt(i) ==
    max_tokens * 4 - CostOf(SubSeq(fitted, 1, i - 1)) - HeaderOf(fit_picked[i].meta)

\* new is old, or a stripped prefix of old followed by the marker
IsCutOf(new, old) ==
    \/ new = old
    \/ \E n \in 0..Len(old) : new = Strip(SubSeq(old, 1, n)) \o <<46, 46, 46>>

----------------------------------------------------------------------------
(* Properties of the retriever *)

\* the number of returned entries whose chunk has the URL of entry p
SameUrlCount(p) ==
    Cardinality({q \in 1..Len(picked) :
                    metas[picked[q].idx].url = metas[picked[p].idx].url})

\* C1: the list returned by retrieve has at most k entries and no URL occurs
\* in it more than m times.
C1_AtMostKAndQuota ==
    ret_pc = "returned" =>
        /\ Len(picked) <= topk
        /\ \A p \in 1..Len(picked) : SameUrlCount(p) <= max_per_url

\* a full quota of one URL and a third chunk of it left out
C1_Witness ==
    /\ ret_pc = "returned"
    /\ topk = 2
    /\ max_per_url = 1
    /\ Len(picked) = 2
    /\ \E i \in 1..Len(metas) :
        /\ metas[i].url = metas[picked[1].idx].url
        /\ i # picked[1].idx
        /\ bm25_scores[i] + dense_scores[i] > bm25_scores[picked[2].idx] + dense_scores[picked[2].idx]

\* the fused scores of the last query, as numerators
FusedNow == Combined(alpha, dense_scores, bm25_scores)

\* with the fused scores f, chunk i is one of the n chunks with the highest
\* scores, whatever the order of equal scores
InPool(f, i, n) == Cardinality({j \in DOMAIN f : f[j] > f[i]}) < n

\* C23: the list returned by retrieve is in non-increasing order of fused
\* score, and every returned chunk is one of the min(4k, N) chunks with the
\* highest fused scores.
C23_OrderedFromPool ==
    ret_pc = "returned" =>
        LET f == FusedNow IN
        /\ \A p \in 1..(Len(picked) - 1) : picked[p].score >= picked[p + 1].score
        /\ \A p \in 1..Len(picked) :
            /\ picked[p].score = f[picked[p].idx]
            /\ InPool(f, picked[p].idx, Min(4 * topk, Len(metas)))

\* k = 1 on five chunks: the returned chunk is in the pool of four, and
\* the chunk outside the pool has a URL
C23_Witness ==
    /\ ret_pc = "returned"
    /\ topk = 1
    /\ Len(metas) = 5
    /\ Len(picked) = 1
    /\ \E i \in 1..Len(metas) :
        /\ ~InPool(FusedNow, i, 4)
        /\ metas[i].url # <<>>
        /\ metas[i].url # None

\* with the fused scores f, chunk i is in the pool of n for every order of
\* equal scores
SurelyInPool(f, i, n) == Cardinality({j \in DOMAIN f : f[j] >= f[i]}) <= n

NoUrl(i) == metas[i].url = <<>> \/ metas[i].url = None

\* the returned chunks of the URL of chunk i that rank at least as high
ReturnedAbove(f, i) ==
    {q \in 1..Len(picked) :
        /\ metas[picked[q].idx].url = metas[i].url
        /\ picked[q].score >= f[i]}

\* the walk is greedy and complete: no chunk without URL is returned, no
\* chunk is returned twice, and a list shorter than k leaves out only pool
\* chunks without URL or with a full quota
WalkComplete ==
    /\ \A p \in 1..Len(picked) : ~NoUrl(picked[p].idx)
    /\ \A p, q \in 1..Len(picked) : picked[p].idx = picked[q].idx => p = q
    /\ Len(picked) <= topk
    /\ Len(picked) < topk =>
        LET f == FusedNow IN
        \A i \in 1..Len(metas) :
            (/\ \A p \in 1..Len(picked) : picked[p].idx # i
             /\ ~NoUrl(i)
             /\ SurelyInPool(f, i, Min(4 * topk, Len(metas))))
                => Cardinality(ReturnedAbove(f, i)) >= max_per_url

\* C24: on a built index (which has at least one chunk) retrieve never
\* raises for a short pool, k larger than the corpus size included, and
\* what it returns is the result of a greedy and complete walk over the
\* pool: no chunk without URL, no padding, and fewer than k results only
\* when every pool chunk left out has no URL or a full quota.
C24_GreedyCompleteNoError ==
    (ret_pc # "built" /\ Len(metas) > 0) =>
        /\ ret_pc = "returned"
        /\ WalkComplete

\* k = 2 and one chunk returned: a pool chunk without URL and a pool
\* chunk of the returned URL, whose quota of one is full, are left out
C24_Witness ==
    /\ ret_pc = "returned"
    /\ topk = 2
    /\ max_per_url = 1
    /\ Len(picked) = 1
    /\ \E i, j \in 1..Len(metas) :
        /\ NoUrl(i)
        /\ j # picked[1].idx
        /\ metas[j].url = metas[picked[1].idx].url

\* C17: with an empty corpus, calling retrieve on the built retriever
\* returns an empty list and raises no error.
C17_EmptyCorpusReturnsEmpty ==
    (Len(metas) = 0 /\ ret_pc # "built") =>
        /\ ret_pc = "returned"
        /\ picked = <<>>

\* min-max normalization of score i of a vector, as a fraction
NormNum(s, i) == IF SeqMax(s) = SeqMin(s) THEN 0 ELSE s[i] - SeqMin(s)
NormDen(s) == IF SeqMax(s) = SeqMin(s) THEN 1 ELSE SeqMax(s) - SeqMin(s)

\* C12: for alpha in {0, 0.5, 1} the score attached to every returned chunk
\* is alpha times its normalized dense score plus (1 - alpha) times its
\* normalized lexical score (here as the numerator over the common
\* denominator 10 * dense range * lexical range); with alpha = 1 the
\* returned chunks are in non-increasing dense order, with alpha = 0 in
\* non-increasing lexical order.
C12_FusedScore ==
    (ret_pc = "returned" /\ alpha \in {0, 5, 10}) =>
        /\ \A j \in 1..Len(picked) :
            picked[j].score =
                alpha * NormNum(dense_scores, picked[j].idx) * NormDen(bm25_scores)
                + (AlphaDen - alpha) * NormNum(bm25_scores, picked[j].idx)
                    * NormDen(dense_scores)
        /\ alpha = 10 =>
            \A j \in 1..(Len(picked) - 1) :
                dense_scores[picked[j].idx] >= dense_scores[picked[j + 1].idx]
        /\ alpha = 0 =>
            \A j \in 1..(Len(picked) - 1) :
                bm25_scores[picked[j].idx] >= bm25_scores[picked[j + 1].idx]

\* alpha = 1 returned two chunks in dense order although the lexical
\* scores order them the other way
C12_Witness ==
    /\ ret_pc = "returned"
    /\ alpha = 10
    /\ Len(picked) = 2
    /\ dense_scores[picked[1].idx] > dense_scores[picked[2].idx]
    /\ bm25_scores[picked[1].idx] < bm25_scores[picked[2].idx]
    /\ picked[2].score > 0

\* C13: normalizing a score vector whose entries are all equal gives the
\* all-zero vector without a division by zero; normalizing any other vector
\* gives values in [0, 1] with the minimum mapped to 0 and the maximum to 1.
C13_NormalizeRange ==
    ret_pc = "returned" =>
        \A s \in {dense_scores, bm25_scores} :
            LET n == normalize(s) IN
            /\ n.den > 0
            /\ (\A i, j \in DOMAIN s : s[i] = s[j]) =>
                    \A i \in DOMAIN s : n.num[i] = 0
            /\ (\E i, j \in DOMAIN s : s[i] # s[j]) =>
                    /\ \A i \in DOMAIN s : 0 <= n.num[i] /\ n.num[i] <= n.den
                    /\ \A i \in DOMAIN s : s[i] = SeqMin(s) => n.num[i] = 0
                    /\ \A i \in DOMAIN s : s[i] = SeqMax(s) => n.num[i] = n.den

\* a degenerate dense vector next to a lexical vector with a value strictly
\* between its minimum and its maximum
C13_Witness ==
    /\ ret_pc = "returned"
    /\ \A i \in DOMAIN dense_scores : dense_scores[i] = dense_scores[1]
    /\ \E i \in DOMAIN bm25_scores :
        0 < normalize(bm25_scores).num[i]
        /\ normalize(bm25_scores).num[i] < normalize(bm25_scores).den
    /\ picked # <<>>

----------------------------------------------------------------------------
(* Properties of the language filter *)

\* the characters of a text that lie in some unwanted-script range
InUnwantedRange(c) == \E lang \in Categories :
    unwanted_ranges[lang][1] <= c /\ c <= unwanted_ranges[lang][2]

UnwantedCount(text) == Len(SelectSeq(text, InUnwantedRange))

AlphaCount(text) == Len(SelectSeq(text, IsAlpha))

\* C9: validate_response_language returns valid for a text whose
\* unwanted-script characters are exactly 5% of its alphabetic characters
\* (1 of 20) and invalid for a text where they are more than 5%.
C9_ValidAtFivePercent ==
    lf_pc = "validate" =>
        /\ (UnwantedCount(lf_text) > 0
              /\ UnwantedCount(lf_text) * 20 = AlphaCount(lf_text)) => lf_valid
        /\ (UnwantedCount(lf_text) * 20 > AlphaCount(lf_text)) => ~lf_valid

\* C11: clean_response is idempotent: cleaning the cleaned text gives the
\* cleaned text again, for every text.
C11_CleanIdempotent ==
    lf_pc = "clean" => clean_response(lf_clean) = lf_clean

\* two characters were dropped from a text and some were kept
C11_Witness ==
    /\ lf_pc = "clean"
    /\ lf_clean # <<>>
    /\ Len(lf_text) = Len(lf_clean) + 2
    /\ clean_response(lf_clean) = lf_clean

PureOf(text, lang) ==
    /\ Len(text) > 0
    /\ \A i \in 1..Len(text) :
        unwanted_ranges[lang][1] <= text[i] /\ text[i] <= unwanted_ranges[lang][2]

\* C10: for every non-empty string made only of characters of one
\* unwanted-script category, contains_unwanted_languages reports that
\* category and no other, and validate_response_language returns invalid.
C10_PureScriptDetected ==
    \A lang \in Categories :
        PureOf(lf_text, lang) =>
            /\ lf_pc \in {"detect", "validate"} => lf_found = {lang}
            /\ lf_pc = "validate" => ~lf_valid

C10_Witness ==
    /\ lf_pc = "validate"
    /\ Len(lf_text) = 2
    /\ PureOf(lf_text, "Hangul")
    /\ lf_found = {"Hangul"}
    /\ ~lf_valid

----------------------------------------------------------------------------
(* Properties of the orchestrators *)

\* the kind of the last line the current iteration has printed
LastKind == IF out = <<>> THEN "" ELSE out[Len(out)].kind

Printed(kind) == \E i \in 1..Len(out) : out[i].kind = kind

HasUnwantedChar(text) == \E i \in 1..Len(text) : InUnwantedRange(text[i])

\* C3: for every query, the CLI loop and RagEngine.answer make at most two
\* generative-model calls (one regeneration request); once the second call
\* is out, the next step ends the query without a further call, and when
\* the second call returned (no transport error) that step emits an answer,
\* whatever the text returned.
C3_BoundedRetry ==
    [][/\ calls' <= 2
       /\ web_calls' <= 2
       /\ cli_pc = "call2" =>
            /\ cli_pc' = "prompt"
            /\ calls' = calls
            /\ out'[Len(out')].kind \in {"answer", "error"}
       /\ web_pc = "call2" =>
            /\ web_pc' = "idle"
            /\ web_calls' = web_calls
            /\ web_resp'.status \in {200, 500}]_vars

\* the second call returned an invalid text, it was force-cleaned and
\* emitted
C3_Witness ==
    /\ cli_pc = "prompt"
    /\ calls = 2
    /\ Printed("force_clean")
    /\ LastKind = "answer"
    /\ ~is_valid

\* C4: every answer emitted to the user by the CLI loop or returned by
\* RagEngine.answer contains no character of an unwanted-script range
\* (Arabic, Cyrillic, Chinese, Hangul, Hiragana, Katakana).
C4_NoUnwantedScriptEmitted ==
    /\ \A i \in 1..Len(out) :
        out[i].kind = "answer" => ~HasUnwantedChar(out[i].text)
    /\ web_resp.status = 200 => ~HasUnwantedChar(web_resp.answer)

\* no chunk that retrieve returned has a digit in its text
NoDigitRetrieved ==
    \A j \in 1..Len(picked) :
        LET text == metas[picked[j].idx].text
        IN  text = None \/ \A i \in 1..Len(text) : ~IsDigit(text[i])

\* C5: in the CLI loop, whenever retrieval was performed for a query that
\* contains an exact-figure trigger phrase and no retrieved chunk's text
\* contains a digit, the query ends with the fixed not-found reply and the
\* generative model is not called for it.
C5_NumericGuard ==
    (/\ cli_pc # "off"
     /\ retrievals = 1
     /\ \E t \in triggers : Contains(Lower(user_q), t)
     /\ NoDigitRetrieved)
        => /\ cli_pc = "prompt"
           /\ out = <<Say("notfound")>>
           /\ calls = 0

C5_Witness ==
    /\ cli_pc = "prompt"
    /\ retrievals = 1
    /\ \E t \in triggers : Contains(Lower(user_q), t)
    /\ picked # <<>>
    /\ NoDigitRetrieved
    /\ out = <<Say("notfound")>>
    /\ calls = 0

\* q, lower-cased and with its punctuation stripped, equals or begins with
\* a phrase of the greeting set
GreetingForm(q) ==
    LET n == Strip(SubNonWord(Lower(q)))
    IN  \E g \in greetings : Len(g) <= Len(n) /\ SubSeq(n, 1, Len(g)) = g

\* C6: in the CLI loop a query that, after lower-casing and punctuation
\* stripping, equals or begins with a phrase of the greeting set gets the
\* canned greeting reply, leaves the conversation history empty, and no
\* retrieval and no generative call is made for it.
C6_GreetingShortCircuit ==
    (cli_pc # "off" /\ GreetingForm(user_q))
        => /\ cli_pc = "prompt"
           /\ out = <<Say("greeting")>>
           /\ history = <<>>
           /\ retrievals = 0
           /\ calls = 0

\* a greeting followed by more words ("shalom mehir")
C6_Witness ==
    /\ cli_pc = "prompt"
    /\ GreetingForm(user_q)
    /\ user_q \notin greetings
    /\ Len(user_q) > 4
    /\ out = <<Say("greeting")>>
    /\ history = <<>>
    /\ retrievals = 0

\* C7: a query that is empty or shorter than 4 characters is rejected with
\* a canned reply and no retrieval (and so no generative call) is performed
\* for it.
C7_ShortQueryRejected ==
    (cli_pc # "off" /\ Len(user_q) < 4)
        => /\ retrievals = 0
           /\ calls = 0
           /\ ~Printed("answer")

\* C8: when the first or the regeneration call of a CLI query fails, no
\* answer is emitted for that query, the failure is printed as a message
\* (no traceback), the conversation history is what it was before the
\* query, and the loop is back at its prompt; the steps of a query before
\* its answer leave history as it is.
C8_FailedCallKeepsState ==
    [][/\ (cli_pc \in {"call1", "call2"} /\ out'[Len(out')].kind = "error") =>
            /\ history' = history
            /\ cli_pc' = "prompt"
            /\ \A i \in 1..Len(out') : out'[i].kind \notin {"answer", "traceback"}
       /\ cli_pc' \in {"call1", "call2"} => history' = history]_vars

\* the regeneration call failed while history held an earlier exchange
C8_Witness ==
    /\ cli_pc = "prompt"
    /\ calls = 2
    /\ LastKind = "error"
    /\ Printed("regenerate")
    /\ ~Printed("answer")
    /\ history # <<>>

\* the step of the first call in which validation rejected the answer: the
\* warning of line 356 is printed
RejectedFirst ==
    /\ cli_pc = "call1"
    /\ \E i \in 1..Len(out') : out'[i].kind = "warning"

\* C16 as stated: when validation rejects the raw answer it is cleaned; if
\* the cleaned answer has at least 50 characters the cleaned text is the
\* emitted answer and no regeneration call is made; a regeneration call is
\* made only when the cleaned answer is shorter than 50 characters.
C16_CleanThenMaybeRegenerate ==
    [][RejectedFirst =>
        /\ clean_response(ans') = ans'
        /\ Len(ans') >= 50 =>
                /\ calls' = calls
                /\ cli_pc' = "prompt"
                /\ out'[Len(out')] = [kind |-> "answer", text |-> ans']
        /\ calls' # calls => Len(ans') < 50]_vars

\* C16 amended: the length that decides is that of the cleaned answer
\* stripped of surrounding whitespace, and the emitted answer is the
\* stripped cleaned text.
C16_CleanStrippedThenMaybeRegenerate ==
    [][RejectedFirst =>
        /\ clean_response(ans') = ans'
        /\ Len(Strip(ans')) >= 50 =>
                /\ calls' = calls
                /\ cli_pc' = "prompt"
                /\ out'[Len(out')] = [kind |-> "answer", text |-> Strip(ans')]
        /\ calls' # calls =>
                /\ calls' = calls + 1
                /\ cli_pc' = "call2"
                /\ Len(Strip(ans')) < 50]_vars

\* an answer with a Cyrillic letter was cleaned to exactly 50 characters
\* and emitted after one call
C16_Witness ==
    /\ cli_pc = "prompt"
    /\ calls = 1
    /\ Printed("warning")
    /\ ~Printed("regenerate")
    /\ ~is_valid
    /\ Len(ans) = 50
    /\ ~HasUnwantedChar(ans)
    /\ out[Len(out)] = [kind |-> "answer", text |-> ans]

\* the alphabetic characters of a text that lie in U+0590..U+05FF
HebrewAlphaCount(text) ==
    Cardinality({i \in 1..Len(text) : IsAlpha(text[i]) /\ text[i] \in 1424..1535})

\* C19: the response-language instruction of the prompt is Hebrew exactly
\* when at least 15% of the alphabetic characters of the query lie in
\* U+0590..U+05FF, and English otherwise; a query with no alphabetic
\* character gets English.
C19_ResponseLanguage ==
    cli_pc \in {"instructed", "call1", "call2"} =>
        (want_he <=> (/\ AlphaCount(user_q) > 0
                      /\ 100 * HebrewAlphaCount(user_q) >= 15 * AlphaCount(user_q)))

C19_Witness ==
    /\ cli_pc = "instructed"
    /\ want_he
    /\ HebrewAlphaCount(user_q) = 3
    /\ AlphaCount(user_q) = 20
    /\ Len(user_q) > 20

Paired(h) ==
    /\ Len(h) % 2 = 0
    /\ \A i \in 1..Len(h) :
        h[i].role = IF i % 2 = 1 THEN "user" ELSE "assistant"

\* the step printed an answer
AnswerEmitted == out' # out /\ out' # <<>> /\ out'[Len(out')].kind = "answer"

\* what a step may do to history: append the pair of the answer it
\* emits, clear it on reset, clear or a greeting, or leave it alone
HistoryStep ==
    /\ AnswerEmitted =>
        /\ Len(history') = Len(history) + 2
        /\ SubSeq(history', 1, Len(history)) = history
        /\ history'[Len(history') - 1] = [role |-> "user", content |-> user_q]
        /\ history'[Len(history')] =
                [role |-> "assistant", content |-> out'[Len(out')].text]
    /\ ~AnswerEmitted =>
        \/ history' = history
        \/ /\ history' = <<>>
           /\ out' # <<>>
           /\ out'[Len(out')].kind \in {"reset", "greeting"}

\* C26: the history of the CLI loop is always a sequence of (user,
\* assistant) pairs; a step appends one pair exactly when it emits an
\* answer, and the only other change is the clearing by reset, clear or a
\* greeting: the numeric guard and failed calls append nothing.
C26_HistoryPaired == [](Paired(history)) /\ [][HistoryStep]_vars

\* two pairs in history and the numeric guard answered the last query
C26_Witness ==
    /\ cli_pc = "prompt"
    /\ Len(history) = 4
    /\ Paired(history)
    /\ LastKind = "notfound"

\* C27: the output of clean_response never triggers detection:
\* contains_unwanted_languages finds no unwanted category in it, digits and
\* whitespace of the unwanted ranges included.
C27_CleanOutputUndetected ==
    lf_pc = "clean" => contains_unwanted_languages(lf_clean) = {}

\* C30: after a request of the web send operation has completed, with an
\* answer or with a failed generative call, every stored user message of
\* the chat is followed by a stored assistant message.
C30_StoredMessagesPaired ==
    web_pc = "idle" =>
        /\ Len(web_msgs) % 2 = 0
        /\ \A i \in 1..Len(web_msgs) :
            web_msgs[i].role = IF i % 2 = 1 THEN "user" ELSE "assistant"

\* C28: chunk_paragraphs terminates for every list of paragraphs and every
\* 0 <= overlap_chars < max_chars, a paragraph longer than max_chars with
\* overlap_chars > 0 included.
C28_ChunkingTerminates == <>(ck_pc = "done")

\* C29: every chunk chunk_paragraphs produces has at most max_chars
\* characters, chunks that start with the overlap tail of the previous
\* chunk included.
C29_ChunkWithinMax ==
    ck_pc # "off" => \A i \in 1..Len(chunks) : Len(chunks[i]) <= ck_max_chars

\* C18: whenever a packed source's text contains unwanted-script
\* characters, the text of that source in the source block of the prompt is
\* the cleaned text, and the query goes on to the generative call.
C18_PromptShowsCleanedSources ==
    (cli_pc # "off" /\ calls >= 1) =>
        /\ Len(sources) = Len(main_picked)
        /\ \A j \in 1..Len(sources) : ~HasUnwantedChar(sources[j].text)

\* C20: a query answered through the web path passes the guards of the
\* orchestrator before a generative call is made: it is no greeting, it has
\* at least four characters, and it does not ask for an exact number that
\* no retrieved source contains; so the web path ends as the CLI loop does.
C20_WebFollowsOrchestrator ==
    web_pc \in {"call1", "call2"} =>
        /\ ~is_greeting(web_text)
        /\ ~is_too_short(web_text)
        /\ ~(needs_exact_number(web_text)
              /\ ~sources_have_numbers(WithMeta(picked)))

====
